---- MODULE Spec2Model ----
(***************************************************************************)
(* Model of add_files_to_xcode.py: one run of add_files_to_project()       *)
(* followed by the interpreter's exit.                                      *)
(*                                                                         *)
(* The manifest text is a sequence of tokens.  Every literal the script    *)
(* searches for is one token, a bare "\n" is one token, a line the script  *)
(* builds for a file (with its trailing "\n") is one token, and text the   *)
(* script never looks at is an opaque token.  File names are opaque and    *)
(* contain none of the searched literals (true of the four names in        *)
(* new_files).  Offsets are 0-based as in Python; Index returns -1 where    *)
(* str.index raises ValueError.                                            *)
(*                                                                         *)
(* The file on disk is bytes: a "\r\n" and a lone "\r" are tokens of their  *)
(* own (an opaque token holds no "\r"), and a token stands for bytes that   *)
(* do not decode.  The file is opened in text mode, which turns both line  *)
(* ends into "\n" on reading; on writing "\n" stays "\n", as on the macOS    *)
(* host that project_path names.                                           *)
(*                                                                         *)
(* The calls to the system that the script does not guard can fail: the    *)
(* open for writing, the write itself (which leaves the emptied file with  *)
(* a leading part of the buffer) and the prints to stdout.                 *)
(***************************************************************************)
EXTENDS Integers, Sequences, FiniteSets, TLC

\* ---- bounds --------------------------------------------------------------
NumIds == 2
MaxOld == 1

\* ---- inputs ---------------------------------------------------------------
Names == {"A.swift", "B.swift"}
Ids == 1..NumIds

\* the non-empty lists of at most as many entries as there are names; the
\* script never looks inside a name, so a list stands for its renamings and
\* the first entry is fixed
FileLists ==
    { l \in UNION { [1..n -> Names] : n \in 1..Cardinality(Names) } : l[1] = "A.swift" }

\* ---- tokens ---------------------------------------------------------------
Tok(k) == [k |-> k, id |-> 0, ref |-> 0, name |-> ""]

file_ref_marker == Tok("/* Begin PBXFileReference section */")
file_ref_end_marker == Tok("/* End PBXFileReference section */")
build_file_marker == Tok("/* Begin PBXBuildFile section */")
build_file_end_marker == Tok("/* End PBXBuildFile section */")
main_group_marker == Tok("CoolClockPresence */ = {")
children_marker == Tok("children = (")
sources_phase_marker == Tok("/* Sources */ = {")
files_marker == Tok("files = (")
close_marker == Tok(");")
NL == Tok("\n")
CRLF == Tok("\r\n")
CR == Tok("\r")

\* bytes that are not text in the encoding open() uses
BadBytes == Tok("undecodable bytes")

\* the leading bytes of a token, left by a write that stopped inside it
Torn == Tok("torn")

\* opaque pre-existing lines of the four regions
\* a line of the manifest carries identifiers like the lines the script builds
OldRef == [k |-> "old file reference", id |-> 1, ref |-> 0, name |-> ""]
OldBuild == [k |-> "old build file", id |-> 2, ref |-> 1, name |-> ""]
OldChild == [k |-> "old child", id |-> 1, ref |-> 0, name |-> ""]
OldSource == [k |-> "old source", id |-> 2, ref |-> 0, name |-> ""]

\* ---- the lines the script builds -------------------------------------------
FileRefEntry(fr, filename) ==
    [k |-> "PBXFileReference", id |-> fr[filename], ref |-> 0, name |-> filename]

\* slip: fileRef takes the build identifier
BuildFileEntry_WrongRef(fr, bf, filename) ==
    [k |-> "PBXBuildFile", id |-> bf[filename], ref |-> bf[filename], name |-> filename]

BuildFileEntry(fr, bf, filename) ==
    [k |-> "PBXBuildFile", id |-> bf[filename], ref |-> fr[filename], name |-> filename]

ChildEntry(fr, filename) ==
    [k |-> "child", id |-> fr[filename], ref |-> 0, name |-> filename]

SourceEntry(bf, filename) ==
    [k |-> "source", id |-> bf[filename], ref |-> 0, name |-> filename]

LineKinds == {"PBXFileReference", "PBXBuildFile", "child", "source"}

\* ---- string primitives -----------------------------------------------------
\* str.index(t, from): least 0-based offset >= from holding t, -1 for ValueError
Index(s, t, from) ==
    IF \E i \in (from + 1)..Len(s) : s[i] = t
    THEN (CHOOSE i \in (from + 1)..Len(s) :
              s[i] = t /\ \A j \in (from + 1)..(i - 1) : s[j] # t) - 1
    ELSE -1

\* t in s
Contains(s, t) == \E i \in 1..Len(s) : s[i] = t

\* s[a:b] with 0 <= a, b <= len(s); empty when b <= a
Slice(s, a, b) == SubSeq(s, a + 1, b)

\* slip: the lines go in front of the end marker instead of behind the begin marker
SpliceAfter_AtEnd(s, start, end, ins) ==
    Slice(s, 0, end) \o ins \o Slice(s, end, Len(s))

\* "\n" + "".join(entries) spliced in as lines 62-67 and 84-89 do it
SpliceAfter(s, start, end, ins) ==
    Slice(s, 0, start) \o ins \o Slice(s, start, end) \o Slice(s, end, Len(s))

\* slip: the lines go behind the closing token
SpliceBefore_PastClose(s, pos, ins) ==
    Slice(s, 0, pos + 1) \o ins \o Slice(s, pos + 1, Len(s))

\* lines 109-113 and 132-136
SpliceBefore(s, pos, ins) ==
    Slice(s, 0, pos) \o ins \o Slice(s, pos, Len(s))

\* ---- manifests read from disk ----------------------------------------------
Rep(x, n) == [i \in 1..n |-> x]

MandatoryShapes(B, E, x) ==
    { [pre |-> <<>>, body |-> <<B, NL>> \o Rep(x, n) \o <<E>>] : n \in {0, MaxOld} }
    \cup { [pre |-> <<>>, body |-> <<B, E>>],
           [pre |-> <<E>>, body |-> <<B, NL>>],
           [pre |-> <<>>, body |-> <<B, NL, x>>],
           [pre |-> <<>>, body |-> <<x, E>>] }

WellFormed(B, E) == [pre |-> <<>>, body |-> <<B, NL, E>>]
EndFirst(B, E) == [pre |-> <<E>>, body |-> <<B, NL>>]

ListShapes(M, O, x) ==
    { <<M, O>> \o Rep(x, n) \o <<close_marker>> : n \in {0, MaxOld} }
    \cup { <<>>, <<M, x, close_marker>>, <<M, O, x>>, <<O, x, close_marker, M>> }

\* blocks: 1 build-file section, 2 file-reference section, 3 group, 4 Sources;
\* the sections in either order ahead of the lists, the lists ahead of or
\* behind the sections
SectionLayouts == { <<1, 2, 3, 4>>, <<2, 1, 3, 4>> }
ListLayouts == { <<1, 2, 3, 4>>, <<3, 4, 2, 1>> }

Assemble(lay, bf, fr, g, s) ==
    LET blk == <<bf.body, fr.body, g, s>>
    IN fr.pre \o bf.pre \o blk[lay[1]] \o blk[lay[2]] \o blk[lay[3]] \o blk[lay[4]]

\* every pair of section shapes around two plain lists, and every pair of list
\* shapes around plain sections and around a reference section whose end
\* marker comes first
Manifests ==
    { Assemble(lay, bf, fr,
               <<main_group_marker, children_marker, close_marker>>,
               <<sources_phase_marker, files_marker, close_marker>>) :
        lay \in SectionLayouts,
        bf \in MandatoryShapes(build_file_marker, build_file_end_marker, OldBuild),
        fr \in MandatoryShapes(file_ref_marker, file_ref_end_marker, OldRef) }
    \cup
    { Assemble(lay, WellFormed(build_file_marker, build_file_end_marker),
               WellFormed(file_ref_marker, file_ref_end_marker), g, s) :
        lay \in ListLayouts,
        g \in ListShapes(main_group_marker, children_marker, OldChild),
        s \in ListShapes(sources_phase_marker, files_marker, OldSource) }
    \cup
    { Assemble(<<3, 4, 2, 1>>, WellFormed(build_file_marker, build_file_end_marker),
               EndFirst(file_ref_marker, file_ref_end_marker), g, s) :
        g \in ListShapes(main_group_marker, children_marker, OldChild),
        s \in ListShapes(sources_phase_marker, files_marker, OldSource) }

NoFile == <<Tok("no such file")>>

\* project_path names a directory: os.path.exists holds, open() raises
Directory == <<Tok("a directory")>>

\* m with every line end written as eol
WithEol(m, eol) == [i \in 1..Len(m) |-> IF m[i] = NL THEN eol ELSE m[i]]

\* the manifests with "\n" line ends, those with a plain build-file section
\* and plain lists also with "\r\n" and with "\r" line ends, and every one of
\* them followed by bytes that do not decode
DiskFiles ==
    Manifests
    \cup { WithEol(Assemble(<<1, 2, 3, 4>>,
                            WellFormed(build_file_marker, build_file_end_marker), fr,
                            <<main_group_marker, children_marker, close_marker>>,
                            <<sources_phase_marker, files_marker, close_marker>>),
                   eol) :
             eol \in {CRLF, CR},
             fr \in MandatoryShapes(file_ref_marker, file_ref_end_marker, OldRef) }
    \cup { Append(m, BadBytes) : m \in Manifests }
    \cup { Directory }

\* open(project_path, 'r') and f.read() go through
Readable(d) == d # Directory /\ ~Contains(d, BadBytes)

\* text mode, universal newlines: "\r\n" and "\r" are read as "\n"
Decode(d) == [i \in 1..Len(d) |-> IF d[i] \in {CRLF, CR} THEN NL ELSE d[i]]

\* ---- state -----------------------------------------------------------------
VARIABLES
    pc,            \* position in add_files_to_project / __main__
    new_files,     \* the list of names to add
    diskBefore,    \* the file at project_path before the run (NoFile: absent)
    disk,          \* the file at project_path now
    content,       \* the buffer
    origin,        \* per buffer token: 0 text read from disk, n put in by step n
    file_refs,     \* name -> identifier
    build_files,   \* name -> identifier
    result,        \* "running", "true", "false", "raised"
    exitCode,      \* -1 until the process exits
    reads,         \* open(project_path, 'r') calls
    writes,        \* open(project_path, 'w') calls
    hits,          \* <<step, origin of the matched token>> of every search
    fault          \* the call to the system that failed: "none", "open",
                   \* "write", "print" (print raised), "flush" (the flush of
                   \* stdout at interpreter exit failed)

vars == <<pc, new_files, diskBefore, disk, content, origin, file_refs,
          build_files, result, exitCode, reads, writes, hits, fault>>

NoIds == [n \in {} |-> 0]

Init ==
    /\ pc = "exists"
    /\ new_files \in FileLists
    /\ diskBefore \in DiskFiles \cup {NoFile}
    /\ disk = diskBefore
    /\ content = <<>>
    /\ origin = <<>>
    /\ file_refs = NoIds
    /\ build_files = NoIds
    /\ result = "running"
    /\ exitCode = -1
    /\ reads = 0
    /\ writes = 0
    /\ hits = {}
    /\ fault = "none"

Range(s) == { s[i] : i \in 1..Len(s) }

\* lines 53-56: one entry per name, in list order
file_ref_entries(fr, files) ==
    [i \in 1..Len(files) |-> FileRefEntry(fr, files[i])]

\* lines 75-78
build_file_entries(fr, bf, files) ==
    [i \in 1..Len(files) |-> BuildFileEntry(fr, bf, files[i])]

\* lines 104-107
file_ref_in_children(fr, files) ==
    [i \in 1..Len(files) |-> ChildEntry(fr, files[i])]

\* lines 127-130
build_file_in_sources(bf, files) ==
    [i \in 1..Len(files) |-> SourceEntry(bf, files[i])]

\* origin of what SpliceAfter builds: the re-emitted range [end, start) of the
\* old buffer, when end < start, is text put in by this step
OriginAfter(o, start, end, n, step) ==
    Slice(o, 0, start) \o Rep(step, n) \o Slice(o, start, end)
    \o [j \in 1..(Len(o) - end) |-> IF end + j <= start THEN step ELSE o[end + j]]

OriginBefore(o, pos, n, step) ==
    Slice(o, 0, pos) \o Rep(step, n) \o Slice(o, pos, Len(o))

Hit(step, at) == IF at >= 0 THEN {<<step, origin[at + 1]>>} ELSE {}

Finish(r) ==
    /\ result' = r
    /\ pc' = "exit"

\* print(...) and return r, lines 30-31, 49-50 and 143-147: stdout takes the
\* text, or keeps it in its buffer and fails when the interpreter flushes it
\* at exit, or print raises OSError and the function does not return
PrintAndReturn(r) ==
    \/ Finish(r) /\ fault' \in {"none", "flush"}
    \/ Finish("raised") /\ fault' = "print"

\* slip: no os.path.exists test
CheckExists_NoTest ==
    /\ pc = "exists"
    /\ pc' = "read"
    /\ UNCHANGED <<new_files, diskBefore, disk, content, origin, file_refs,
                   build_files, result, exitCode, fault, reads, writes, hits>>

\* lines 29-31
CheckExists ==
    /\ pc = "exists"
    /\ IF diskBefore = NoFile
       THEN PrintAndReturn("false")
       ELSE pc' = "read" /\ UNCHANGED <<result, fault>>
    /\ UNCHANGED <<new_files, diskBefore, disk, content, origin, file_refs,
                   build_files, exitCode, reads, writes, hits>>

\* lines 34-35; IsADirectoryError and UnicodeDecodeError are not caught
ReadFile ==
    /\ pc = "read"
    /\ reads' = reads + 1
    /\ IF Readable(disk)
       THEN /\ content' = Decode(disk)
            /\ origin' = Rep(0, Len(disk))
            /\ pc' = "ids"
            /\ UNCHANGED result
       ELSE /\ Finish("raised")
            /\ UNCHANGED <<content, origin>>
    /\ UNCHANGED <<new_files, diskBefore, disk, file_refs, build_files,
                   exitCode, fault, writes, hits>>

\* uuid.uuid4().hex[:24].upper(): any identifier
generate_uuid == Ids

\* lines 38-42
GenerateIds ==
    /\ pc = "ids"
    /\ file_refs' \in [Range(new_files) -> generate_uuid]
    /\ build_files' \in [Range(new_files) -> generate_uuid]
    /\ pc' = "fileref"
    /\ UNCHANGED <<new_files, diskBefore, disk, content, origin, result,
                   exitCode, fault, reads, writes, hits>>

\* lines 44-68
InsertFileRefs ==
    /\ pc = "fileref"
    /\ LET start0 == Index(content, file_ref_marker, 0)
           end0 == Index(content, file_ref_end_marker, 0)
           start == start0 + 1
           ins == <<NL>> \o file_ref_entries(file_refs, new_files)
       IN IF ~Contains(content, file_ref_marker)
          THEN PrintAndReturn("false") /\ UNCHANGED <<content, origin, hits>>
          ELSE IF end0 = -1
          THEN /\ Finish("raised")
               /\ hits' = hits \cup Hit(1, start0)
               /\ UNCHANGED <<content, origin, fault>>
          ELSE /\ content' = SpliceAfter(content, start, end0, ins)
               /\ origin' = OriginAfter(origin, start, end0, Len(ins), 1)
               /\ hits' = hits \cup Hit(1, start0) \cup Hit(1, end0)
               /\ pc' = "buildfile"
               /\ UNCHANGED <<result, fault>>
    /\ UNCHANGED <<new_files, diskBefore, disk, file_refs, build_files,
                   exitCode, reads, writes>>

\* slip: a missing end marker makes the step do nothing instead of raising
InsertBuildFiles_SkipOnMissingEnd ==
    /\ pc = "buildfile"
    /\ LET start0 == Index(content, build_file_marker, 0)
           end0 == Index(content, build_file_end_marker, 0)
           start == start0 + 1
           ins == <<NL>> \o build_file_entries(file_refs, build_files, new_files)
       IN IF start0 = -1
          THEN Finish("raised") /\ UNCHANGED <<content, origin, hits>>
          ELSE IF end0 = -1
          THEN /\ pc' = "group"
               /\ UNCHANGED <<content, origin, hits, result>>
          ELSE /\ content' = SpliceAfter(content, start, end0, ins)
               /\ origin' = OriginAfter(origin, start, end0, Len(ins), 2)
               /\ hits' = hits \cup Hit(2, start0) \cup Hit(2, end0)
               /\ pc' = "group"
               /\ UNCHANGED result
    /\ UNCHANGED <<new_files, diskBefore, disk, file_refs, build_files,
                   exitCode, fault, reads, writes>>

\* lines 70-90
InsertBuildFiles ==
    /\ pc = "buildfile"
    /\ LET start0 == Index(content, build_file_marker, 0)
           end0 == Index(content, build_file_end_marker, 0)
           start == start0 + 1
           ins == <<NL>> \o build_file_entries(file_refs, build_files, new_files)
       IN IF start0 = -1
          THEN Finish("raised") /\ UNCHANGED <<content, origin, hits>>
          ELSE IF end0 = -1
          THEN /\ Finish("raised")
               /\ hits' = hits \cup Hit(2, start0)
               /\ UNCHANGED <<content, origin>>
          ELSE /\ content' = SpliceAfter(content, start, end0, ins)
               /\ origin' = OriginAfter(origin, start, end0, Len(ins), 2)
               /\ hits' = hits \cup Hit(2, start0) \cup Hit(2, end0)
               /\ pc' = "group"
               /\ UNCHANGED result
    /\ UNCHANGED <<new_files, diskBefore, disk, file_refs, build_files,
                   exitCode, fault, reads, writes>>

\* the shape shared by lines 96-114 and 119-137
ListStep(step, marker, opening, ins, next) ==
    LET marker_pos == Index(content, marker, 0)
        open_pos == Index(content, opening, marker_pos)
        end_pos == Index(content, close_marker, open_pos)
    IN IF ~Contains(content, marker)
       THEN pc' = next /\ UNCHANGED <<content, origin, hits, result>>
       ELSE IF open_pos = -1
       THEN /\ Finish("raised")
            /\ hits' = hits \cup Hit(step, marker_pos)
            /\ UNCHANGED <<content, origin>>
       ELSE IF end_pos = -1
       THEN /\ Finish("raised")
            /\ hits' = hits \cup Hit(step, marker_pos) \cup Hit(step, open_pos)
            /\ UNCHANGED <<content, origin>>
       ELSE /\ content' = SpliceBefore(content, end_pos, ins)
            /\ origin' = OriginBefore(origin, end_pos, Len(ins), step)
            /\ hits' = hits \cup Hit(step, marker_pos) \cup Hit(step, open_pos)
                            \cup Hit(step, end_pos)
            /\ pc' = next
            /\ UNCHANGED result

\* lines 92-114
InsertGroup ==
    /\ pc = "group"
    /\ ListStep(3, main_group_marker, children_marker,
                file_ref_in_children(file_refs, new_files), "sources")
    /\ UNCHANGED <<new_files, diskBefore, disk, file_refs, build_files,
                   exitCode, fault, reads, writes>>

\* lines 116-137
InsertSources ==
    /\ pc = "sources"
    /\ ListStep(4, sources_phase_marker, files_marker,
                build_file_in_sources(build_files, new_files), "write")
    /\ UNCHANGED <<new_files, diskBefore, disk, file_refs, build_files,
                   exitCode, fault, reads, writes>>

\* what a write that fails leaves in the file that open(..., 'w') emptied: any
\* leading part of the buffer, ending between two tokens or inside one
Partial(c) ==
    { Slice(c, 0, n) : n \in 0..Len(c) }
    \cup { Append(Slice(c, 0, n), Torn) : n \in 0..(Len(c) - 1) }

\* lines 139-141: open(project_path, 'w') raises and the file stays as it was
\* (PermissionError), or it empties the file and f.write or the close that
\* flushes it raises (OSError), or the whole buffer reaches the file
WriteFile ==
    /\ pc = "write"
    /\ writes' = writes + 1
    /\ \/ /\ Finish("raised")
          /\ fault' = "open"
          /\ UNCHANGED disk
       \/ /\ Finish("raised")
          /\ fault' = "write"
          /\ disk' \in Partial(content)
       \/ /\ disk' = content
          /\ pc' = "report"
          /\ UNCHANGED <<result, fault>>
    /\ UNCHANGED <<new_files, diskBefore, content, origin, file_refs,
                   build_files, exitCode, reads, hits>>

\* lines 143-147
Report ==
    /\ pc = "report"
    /\ PrintAndReturn("true")
    /\ UNCHANGED <<new_files, diskBefore, disk, content, origin, file_refs,
                   build_files, exitCode, reads, writes, hits>>

\* lines 149-151; an uncaught exception ends the interpreter with status 1,
\* and a failing flush of stdout at exit replaces the status by 120: after a
\* print that raised, the text may or may not still be in the buffer
Exit ==
    /\ pc = "exit"
    /\ exitCode' \in IF fault = "flush" THEN {120}
                     ELSE IF fault = "print" THEN {1, 120}
                     ELSE IF result = "true" THEN {0} ELSE {1}
    /\ pc' = "done"
    /\ UNCHANGED <<new_files, diskBefore, disk, content, origin, file_refs,
                   build_files, result, reads, writes, hits, fault>>

Next ==
    \/ CheckExists
    \/ ReadFile
    \/ GenerateIds
    \/ InsertFileRefs
    \/ InsertBuildFiles
    \/ InsertGroup
    \/ InsertSources
    \/ WriteFile
    \/ Report
    \/ Exit

Spec == Init /\ [][Next]_vars

TypeOK ==
    /\ pc \in {"exists", "read", "ids", "fileref", "buildfile", "group",
               "sources", "write", "report", "exit", "done"}
    /\ Len(origin) = Len(content)
    /\ result \in {"running", "true", "false", "raised"}
    /\ fault \in {"none", "open", "write", "print", "flush"}
    /\ exitCode \in {-1, 0, 1, 120}

\* ---- vocabulary of the properties ------------------------------------------
Done == pc = "done"
Succeeded == pc = "done" /\ result = "true" /\ exitCode = 0
FileExists == diskBefore # NoFile

\* the system refused no call: the file took the write, stdout the messages
NoFault == fault = "none"

\* the file exists and its text can be read
IsText == FileExists /\ Readable(diskBefore)

MandatoryMarkers ==
    {file_ref_marker, file_ref_end_marker, build_file_marker, build_file_end_marker}

MandatoryPresent(m) == \A t \in MandatoryMarkers : Contains(m, t)

AllMarkersPresent(m) ==
    /\ MandatoryPresent(m)
    /\ Contains(m, main_group_marker)
    /\ Contains(m, sources_phase_marker)

\* Index that passes a failed search on
Find(s, t, from) == IF from < 0 THEN -1 ELSE Index(s, t, from)

OfKind(s, kind) == SelectSeq(s, LAMBDA t : t.k = kind)
WithoutLines(s) == SelectSeq(s, LAMBDA t : t.k \notin LineKinds)
WithoutNewlines(s) == SelectSeq(s, LAMBDA t : t # NL)

\* the tokens of s whose origin is 0, in order
ReadText(s, o) ==
    LET F[i \in 0..Len(s)] ==
            IF i = 0 THEN <<>>
            ELSE IF i <= Len(o) /\ o[i] = 0 THEN Append(F[i - 1], s[i]) ELSE F[i - 1]
    IN F[Len(s)]

\* characters of a token: the literals of lines 45-46, 71-72, 94, 99, 117, 122,
\* 101, the f-strings of lines 55, 77, 106, 129 with 24-character identifiers
\* and 7-character names; an opaque old line counts 20
CharLen(t) ==
    CASE t = file_ref_marker -> 36
      [] t = file_ref_end_marker -> 34
      [] t = build_file_marker -> 32
      [] t = build_file_end_marker -> 30
      [] t = main_group_marker -> 24
      [] t = children_marker -> 12
      [] t = sources_phase_marker -> 17
      [] t = files_marker -> 9
      [] t = close_marker -> 2
      [] t = NL -> 1
      [] t = CRLF -> 2
      [] t = CR -> 1
      [] t.k = "PBXFileReference" -> 135 + 2 * 7
      [] t.k = "PBXBuildFile" -> 114 + 2 * 7
      [] t.k = "child" -> 37 + 7
      [] t.k = "source" -> 48 + 7
      [] OTHER -> 20

TextLen(s) ==
    LET F[i \in 0..Len(s)] == IF i = 0 THEN 0 ELSE F[i - 1] + CharLen(s[i])
    IN F[Len(s)]

RefLines == file_ref_entries(file_refs, new_files)
BuildLines == build_file_entries(file_refs, build_files, new_files)
ChildLines == file_ref_in_children(file_refs, new_files)
SourceLines == build_file_in_sources(build_files, new_files)

\* the text between the first B and the first E after it (or the end of text)
Section(s, B, E) ==
    LET b == Index(s, B, 0)
        e == Find(s, E, b)
    IN Slice(s, b + 1, IF e = -1 THEN Len(s) ELSE e)

\* block occurs in s as consecutive tokens
OccursIn(block, s) ==
    \E p \in 0..(Len(s) - Len(block)) : \A i \in 1..Len(block) : s[p + i] = block[i]

\* ---- C1 --------------------------------------------------------------------
\* C1: when the manifest read lacks one of the four mandatory markers (begin or
\* end of the PBXFileReference or PBXBuildFile section), the run never writes:
\* the file on disk stays identical to the file before the run, and the run
\* ends in failure with a non-zero exit status.
C1_NoWriteWhenMandatoryMarkerAbsent ==
    (FileExists /\ ~MandatoryPresent(diskBefore)) =>
        /\ writes = 0
        /\ disk = diskBefore
        /\ result # "true"
        /\ pc # "write"
        /\ Done => exitCode # 0

\* a run that raised on the missing End PBXBuildFile marker, the other three
\* markers being present, after the reference lines went into the buffer
C1_Witness ==
    /\ Done
    /\ result = "raised"
    /\ ~Contains(diskBefore, build_file_end_marker)
    /\ Contains(diskBefore, build_file_marker)
    /\ Contains(diskBefore, file_ref_marker)
    /\ Contains(diskBefore, file_ref_end_marker)
    /\ Readable(diskBefore)
    /\ OccursIn(RefLines, content)
    /\ exitCode = 1
    /\ disk = diskBefore

\* ---- C2 --------------------------------------------------------------------
\* C2: when project_path names no existing file the run fails before the file
\* is opened for reading or writing: the function returns False (it raises
\* instead only when stdout refuses the message), no identifier is generated,
\* nothing reaches a file, and the process exits with a non-zero status.
C2_MissingFileFailsBeforeIO ==
    ~FileExists =>
        /\ reads = 0
        /\ writes = 0
        /\ disk = NoFile
        /\ content = <<>>
        /\ file_refs = NoIds
        /\ build_files = NoIds
        /\ pc \in {"exists", "exit", "done"}
        /\ pc \in {"exit", "done"} => result \in {"false", "raised"}
        /\ (pc \in {"exit", "done"} /\ fault # "print") => result = "false"
        /\ Done => exitCode # 0

C2_Witness == Done /\ ~FileExists /\ result = "false" /\ exitCode = 1

\* ---- C3 --------------------------------------------------------------------
\* C3: after a successful run on a manifest holding all the markers,
\* deleting the per-file lines from the written text gives back the input, and
\* the written text is longer than the input by the length of the per-file
\* lines.
C3_Original ==
    (Succeeded /\ AllMarkersPresent(diskBefore)) =>
        /\ WithoutLines(disk) = diskBefore
        /\ TextLen(disk) = TextLen(diskBefore) + TextLen(OfKind(disk, "PBXFileReference"))
               + TextLen(OfKind(disk, "PBXBuildFile")) + TextLen(OfKind(disk, "child"))
               + TextLen(OfKind(disk, "source"))

\* ---- C4 --------------------------------------------------------------------
\* C4 as stated: with the mandatory markers present (and no call refused by
\* the system), a conditional step whose marker is absent inserts nothing and
\* the run succeeds and writes the file with the reference and build-file
\* sections updated; with the group marker missing, neither the group list nor
\* the build phase receives a line.
C4_Original ==
    (Done /\ IsText /\ MandatoryPresent(diskBefore) /\ NoFault) =>
        /\ (~Contains(diskBefore, main_group_marker)
               \/ ~Contains(diskBefore, sources_phase_marker)) =>
              /\ result = "true"
              /\ writes = 1
              /\ OccursIn(<<NL>> \o RefLines, disk)
              /\ OccursIn(<<NL>> \o BuildLines, disk)
        /\ ~Contains(diskBefore, main_group_marker) =>
              /\ OfKind(disk, "child") = <<>>
              /\ OfKind(disk, "source") = <<>>
        /\ ~Contains(diskBefore, sources_phase_marker) =>
              OfKind(disk, "source") = <<>>

\* ---- C5 --------------------------------------------------------------------
\* C5: with the mandatory markers present (and no call refused by the system)
\* the run succeeds and the final write is performed, whatever an optional
\* step meets, a present marker with no list opening token or no closing token
\* after it included.
C5_OptionalFailureAbsorbed ==
    (Done /\ IsText /\ MandatoryPresent(diskBefore) /\ NoFault) =>
        /\ result = "true"
        /\ writes = 1
        /\ exitCode = 0

\* ---- C6 --------------------------------------------------------------------
\* C6: every line in the buffer and in the written text carries the identifiers
\* the registry holds for the line's own name: a build-file line the buildId
\* and, as fileRef, the referenceId of the same name's reference line; a group
\* line that referenceId; a build-phase line that buildId.
ConsistentIds(s) ==
    LET lines == { i \in 1..Len(s) : s[i].k \in LineKinds }
    IN \A i \in lines :
            /\ s[i].k \in {"PBXFileReference", "child"} => s[i].id = file_refs[s[i].name]
            /\ s[i].k \in {"PBXBuildFile", "source"} => s[i].id = build_files[s[i].name]
            /\ s[i].k = "PBXBuildFile" => s[i].ref = file_refs[s[i].name]
            /\ \A j \in lines :
                  s[i].name = s[j].name =>
                      /\ (s[i].k = "PBXBuildFile" /\ s[j].k = "PBXFileReference") =>
                            s[i].ref = s[j].id
                      /\ (s[i].k = "child" /\ s[j].k = "PBXFileReference") =>
                            s[i].id = s[j].id
                      /\ (s[i].k = "source" /\ s[j].k = "PBXBuildFile") =>
                            s[i].id = s[j].id

C6_SameIdentifiersAtEverySite ==
    /\ ConsistentIds(content)
    /\ Succeeded =>
          /\ ConsistentIds(disk)
          /\ \A f \in Range(new_files) :
                /\ Contains(disk, FileRefEntry(file_refs, f))
                /\ Contains(disk, BuildFileEntry(file_refs, build_files, f))

\* a written text with lines at all four sites for two names whose four
\* identifiers are not all equal
C6_Witness ==
    /\ Succeeded
    /\ Range(new_files) = Names
    /\ file_refs["A.swift"] # file_refs["B.swift"]
    /\ file_refs["A.swift"] # build_files["A.swift"]
    /\ OfKind(disk, "child") # <<>>
    /\ OfKind(disk, "source") # <<>>
    /\ OfKind(disk, "PBXBuildFile") # <<>>

\* ---- C7 --------------------------------------------------------------------
\* the identifiers carried by the lines of a text
ManifestIds(s) == ({ s[i].id : i \in 1..Len(s) } \cup { s[i].ref : i \in 1..Len(s) }) \ {0}

\* C7: once the identifiers of a run are generated, the two of a name differ,
\* no identifier belongs to two names, and none is an identifier of the
\* manifest text that was read.
C7_IdentifiersUnique ==
    (pc \notin {"exists", "read", "ids"} /\ IsText) =>
        /\ \A n \in Range(new_files) : file_refs[n] # build_files[n]
        /\ \A n, m \in Range(new_files) :
              n # m => /\ file_refs[n] # file_refs[m]
                       /\ build_files[n] # build_files[m]
                       /\ file_refs[n] # build_files[m]
        /\ \A n \in Range(new_files) :
              /\ file_refs[n] \notin ManifestIds(Decode(diskBefore))
              /\ build_files[n] \notin ManifestIds(Decode(diskBefore))

\* ---- C8 --------------------------------------------------------------------
\* the first B of the buffer is followed by one newline and then by lines, one
\* per name in list order; where the manifest read had E after B, everything
\* the section held before comes after the lines, in its old order, the section
\* holds no other line of that kind, and a section that held nothing but
\* newlines holds the lines and nothing else
SectionUpdated(B, E, lines, kind) ==
    LET b == Index(content, B, 0)
        e == Find(content, E, b)
        hi == IF e = -1 THEN Len(content) ELSE e
        n == Len(lines)
        held == Section(Decode(diskBefore), B, E)
    IN /\ b >= 0
       /\ Len(content) >= b + 2 + n
       /\ content[b + 2] = NL
       /\ origin[b + 2] # 0
       /\ Slice(content, b + 2, b + 2 + n) = lines
       /\ Index(diskBefore, B, 0) < Index(diskBefore, E, 0) =>
             /\ ReadText(Slice(content, b + 2 + n, hi), Slice(origin, b + 2 + n, hi)) = held
             /\ Len(OfKind(Slice(content, b + 1, hi), kind)) = n
             /\ WithoutNewlines(held) = <<>> =>
                   WithoutNewlines(Slice(content, b + 1, hi)) = lines

\* C8: in the written text each mandatory section starts, right after its
\* begin marker (and the newline that ends the marker's line), with the new
\* lines, exactly one per input name in input order, ahead of everything the
\* section held before; a section that was empty then holds exactly those
\* lines.
C8_LinesAtSectionStart ==
    Succeeded =>
        /\ disk = content
        /\ SectionUpdated(file_ref_marker, file_ref_end_marker, RefLines,
                          "PBXFileReference")
        /\ SectionUpdated(build_file_marker, build_file_end_marker, BuildLines,
                          "PBXBuildFile")

\* a written text whose reference section held an old line and whose build-file
\* section had adjacent markers, for a list of two names
C8_Witness ==
    /\ Succeeded
    /\ Len(new_files) = 2
    /\ OccursIn(<<file_ref_marker, NL>> \o RefLines \o <<NL, OldRef, file_ref_end_marker>>,
                disk)
    /\ OccursIn(<<build_file_marker, build_file_end_marker>>, diskBefore)
    /\ OccursIn(<<build_file_marker, NL>> \o BuildLines \o <<build_file_end_marker>>, disk)

\* ---- C9 --------------------------------------------------------------------
\* in the buffer after the step, the list opened by the first opening token
\* after the first marker ends with the lines, right before its closing token;
\* what the list held before the step precedes them unchanged, and the rest of
\* the buffer is as before the step
ListUpdated(marker, opening, lines) ==
    LET o0 == Find(content, opening, Find(content, marker, 0))
        c0 == Find(content, close_marker, o0)
        o == Find(content', opening, Find(content', marker, 0))
        c == Find(content', close_marker, o)
        n == Len(lines)
    IN /\ o >= 0
       /\ c - n > o
       /\ Slice(content', c - n, c) = lines
       /\ Slice(content', o + 1, c - n) = Slice(content, o0 + 1, c0)
       /\ Slice(content', 0, c - n) = Slice(content, 0, c0)
       /\ Slice(content', c, Len(content')) = Slice(content, c0, Len(content))

C9_Step ==
    /\ (pc = "group" /\ pc' = "sources" /\ Contains(content, main_group_marker)) =>
          ListUpdated(main_group_marker, children_marker, ChildLines)
    /\ (pc = "sources" /\ pc' = "write" /\ Contains(content, sources_phase_marker)) =>
          ListUpdated(sources_phase_marker, files_marker, SourceLines)
    /\ (pc \in {"sources", "write"} /\ \E i \in 1..Len(origin) : origin[i] = 3) =>
          /\ OccursIn(ChildLines, content')
          /\ Len(OfKind(content', "child")) = Len(new_files)

\* C9: a conditional step whose marker is present inserts its lines, one per
\* input name in input order, contiguously and right before the closing token
\* of the list opened by the nearest opening token after the first occurrence
\* of the marker; the entries the list held stay in place ahead of them, and
\* the inserted lines stay contiguous for the rest of the run.
C9_LinesAtListEnd == [][C9_Step]_vars

\* the group list with an old entry, right after the group step for two names
C9_Witness ==
    /\ pc = "sources"
    /\ Len(new_files) = 2
    /\ OccursIn(<<main_group_marker, children_marker, OldChild>> \o ChildLines
                    \o <<close_marker>>, content)

\* ---- C10 -------------------------------------------------------------------
StepLines(n) ==
    CASE n = 1 -> RefLines
      [] n = 2 -> BuildLines
      [] n = 3 -> ChildLines
      [] n = 4 -> SourceLines

\* C10: at every point of the run the lines of every step that has acted are in
\* the buffer whole and in order, and every token a marker search matched was
\* text read from the manifest, not text an earlier step put into the buffer.
C10_EarlierInsertionsIntact ==
    /\ \A n \in 1..4 : (\E i \in 1..Len(origin) : origin[i] = n) =>
                            OccursIn(StepLines(n), content)
    /\ \A h \in hits : h[2] = 0
====
